---- MODULE Spec2Model ----
(***************************************************************************)
(* A model of src/app.py, the Streamlit script "Macro x Markets".          *)
(*                                                                         *)
(* The script is re-executed top to bottom on every user interaction.  One *)
(* run is modelled as a sequence of steps: the sidebar (lines 12-31), the  *)
(* earnings loop (70-77), the earnings table (79), the alerts (84-108),    *)
(* the exposure loop (136-140) and the exposure summary (142-154).  An     *)
(* uncaught Python exception ends the run (fault /= "none").               *)
(*                                                                         *)
(* Python values:                                                          *)
(*   str            a sequence of one-character strings                    *)
(*   None / value   <<>> / <<v>>                                           *)
(*   date           the number of days since 2026-12-01                    *)
(*   datetime       the number of hours since 2026-12-01 00:00             *)
(***************************************************************************)
EXTENDS Integers, Sequences, FiniteSets, TLC

VARIABLES
    watchlist,      \* st.session_state.watchlist
    text_input,     \* the text typed in the sidebar's text box
    new_ticker,     \* line 17
    clicked,        \* which button caused this run: "Add", "Clear", "none"
    pc,             \* the position of the script run
    fault,          \* the uncaught exception that ended the run, or "none"
    today,          \* line 37
    now,            \* line 84
    cal,            \* safe_earnings_date's local, line 57
    ed,             \* line 72 (and safe_earnings_date's return value)
    rows,           \* line 70
    earn_df,        \* line 79
    soon_earn_7d,   \* line 102
    earnings_alert, \* which branch of lines 104-108 ran
    macro_events,   \* line 40
    macro_df,       \* line 46
    soon_macro,     \* line 90
    macro_alert,    \* which branch of lines 92-98 ran
    top,            \* line 93
    ex_rows,        \* line 136
    top_tag,        \* line 153
    top_share       \* line 154

vars == <<watchlist, text_input, new_ticker, clicked, pc, fault, today, now,
          cal, ed, rows, earn_df, soon_earn_7d, earnings_alert,
          macro_events, macro_df, soon_macro, macro_alert, top,
          ex_rows, top_tag, top_share>>

sessionVars == <<watchlist, text_input, new_ticker, clicked>>
earnVars    == <<rows, earn_df, soon_earn_7d, earnings_alert>>
macroVars   == <<macro_events, macro_df, soon_macro, macro_alert, top>>
exVars      == <<ex_rows, top_tag, top_share>>

(***************************************************************************)
(* Bounds of the model.                                                    *)
(***************************************************************************)
MaxWatch    == 2    \* longest watchlist the Add button is followed to
MaxEvents   == 3    \* longest macro calendar drawn in SpecMacro
MaxDay      == 3    \* latest macro event day drawn in SpecMacro
MaxCands    == 2    \* longest candidate list the earnings feed returns

None    == <<>>
Some(v) == <<v>>

Range(s) == {s[i] : i \in 1..Len(s)}

SeqsUpTo(S, n) == UNION {[1..k -> S] : k \in 0..n}

----------------------------------------------------------------------------
(***************************************************************************)
(* Python strings.                                                         *)
(***************************************************************************)

\* ord(c) for the characters the model uses.
Code(c) ==
    CASE c = " " -> 32 [] c = "-" -> 45
      [] c = "0" -> 48 [] c = "1" -> 49 [] c = "2" -> 50 [] c = "3" -> 51
      [] c = "4" -> 52 [] c = "5" -> 53 [] c = "6" -> 54 [] c = "7" -> 55
      [] c = "8" -> 56 [] c = "9" -> 57
      [] c = "A" -> 65 [] c = "F" -> 70 [] c = "L" -> 76 [] c = "M" -> 77
      [] c = "P" -> 80 [] c = "S" -> 83 [] c = "T" -> 84
      [] c = "a" -> 97 [] c = "f" -> 102 [] c = "m" -> 109
      [] c = "s" -> 115 [] c = "t" -> 116

IsSpace(c) == c = " "

\* str.upper(), character by character.
UpperChar(c) ==
    CASE c = "a" -> "A" [] c = "f" -> "F" [] c = "m" -> "M"
      [] c = "s" -> "S" [] c = "t" -> "T"
      [] OTHER -> c

Upper(s) == [i \in 1..Len(s) |-> UpperChar(s[i])]

RECURSIVE LStrip(_)
LStrip(s) ==
    IF s = <<>> THEN <<>>
    ELSE IF IsSpace(Head(s)) THEN LStrip(Tail(s)) ELSE s

RECURSIVE RStrip(_)
RStrip(s) ==
    IF s = <<>> THEN <<>>
    ELSE IF IsSpace(s[Len(s)]) THEN RStrip(SubSeq(s, 1, Len(s) - 1)) ELSE s

\* str.strip()
Strip(s) == RStrip(LStrip(s))

\* s < t for Python strings: lexicographic by code point.
RECURSIVE StrLess(_, _)
StrLess(s, t) ==
    IF t = <<>> THEN FALSE
    ELSE IF s = <<>> THEN TRUE
    ELSE IF Code(Head(s)) < Code(Head(t)) THEN TRUE
    ELSE IF Code(Head(s)) > Code(Head(t)) THEN FALSE
    ELSE StrLess(Tail(s), Tail(t))

----------------------------------------------------------------------------
(***************************************************************************)
(* The sidebar: lines 12-31.                                               *)
(***************************************************************************)

AAPL == <<"A", "A", "P", "L">>
MSFT == <<"M", "S", "F", "T">>

DefaultWatchlist == <<AAPL, MSFT>>

\* What the user may type in the text box.
TextInputs ==
    { <<>>, <<" ">>, <<"a">>, <<" ", "A", " ">>, <<"m", "s", "f", "t">> }

\* Line 17 without .strip().
Normalize_NoStrip(text) == Upper(text)

\* Line 17: st.text_input(...).strip().upper()
Normalize(text) == Upper(Strip(text))

\* Lines 20-22 without the membership test of line 21.
AddHandler_NoMembershipTest(wl, nt) ==
    IF nt /= <<>> THEN Append(wl, nt) ELSE wl

\* Lines 20-22: the Add button's handler.
AddHandler(wl, nt) ==
    IF nt /= <<>> /\ nt \notin Range(wl) THEN Append(wl, nt) ELSE wl

\* Lines 24-25: the Clear button's handler.
ClearHandler(wl) == <<>>

----------------------------------------------------------------------------
(***************************************************************************)
(* Dates: datetime.date, date.isoformat(), date - date.                    *)
(***************************************************************************)

IsLeap(y) == (y % 4 = 0 /\ y % 100 /= 0) \/ y % 400 = 0

DaysInMonth(y, m) ==
    IF m = 2 THEN (IF IsLeap(y) THEN 29 ELSE 28)
    ELSE IF m \in {4, 6, 9, 11} THEN 30 ELSE 31

\* The calendar date n days after the first day of the epoch month.
RECURSIVE DateFrom(_, _, _)
DateFrom(y, m, n) ==
    IF n < DaysInMonth(y, m) THEN [year |-> y, month |-> m, day |-> n + 1]
    ELSE IF m = 12 THEN DateFrom(y + 1, 1, n - DaysInMonth(y, m))
    ELSE DateFrom(y, m + 1, n - DaysInMonth(y, m))

\* Day 0 is 2026-12-01.
DateOf(n) == DateFrom(2026, 12, n)

DigitChar(k) ==
    CASE k = 0 -> "0" [] k = 1 -> "1" [] k = 2 -> "2" [] k = 3 -> "3"
      [] k = 4 -> "4" [] k = 5 -> "5" [] k = 6 -> "6" [] k = 7 -> "7"
      [] k = 8 -> "8" [] k = 9 -> "9"

\* n written with w digits, zero padded ("%04d", "%02d").
RECURSIVE Pad(_, _)
Pad(n, w) == IF w = 0 THEN <<>> ELSE Append(Pad(n \div 10, w - 1), DigitChar(n % 10))

\* date.isoformat(): "YYYY-MM-DD"
IsoFormat(n) ==
    LET d == DateOf(n)
    IN  Pad(d.year, 4) \o <<"-">> \o Pad(d.month, 2) \o <<"-">> \o Pad(d.day, 2)

\* The day date.today() returns in a run of the session: 2026-12-28.
Todays == {27}

\* The hours between the midnight of line 37's date.today() and line 84's
\* datetime.now(): a run at nine in the morning.
NowOffsets == {9}

----------------------------------------------------------------------------
(***************************************************************************)
(* Earnings: lines 54-80 and 100-108.                                      *)
(***************************************************************************)

\* What yf.Ticker(t).calendar may be when safe_earnings_date reads it:
\*   raises    the request or its parsing raises an exception
\*   no_frame  not a DataFrame, or an empty one (line 58 is false)
\*   no_row    a DataFrame without an "Earnings Date" row (line 60 is false)
\*   scalar    the row's first value is one date
\*   list      the row's first value is a list or tuple of dates
Payload(k, ds) == [kind |-> k, dates |-> ds]

NoCal == Payload("unset", <<>>)

NoneResult     == [kind |-> "None", day |-> 0]
Timestamp(d)   == [kind |-> "Timestamp", day |-> d]
\* pd.to_datetime([]) is an empty DatetimeIndex, not a Timestamp.
DatetimeIndex  == [kind |-> "DatetimeIndex", day |-> 0]

\* Lines 63-64: a non-empty list or tuple is replaced by its first element.
PickFromList(val) == val[1]

\* Lines 54-68.
safe_earnings_date(c) ==
    IF c.kind = "raises" THEN NoneResult                     \* 66-67
    ELSE IF c.kind = "no_frame" THEN NoneResult              \* 58, 68
    ELSE IF c.kind = "no_row" THEN NoneResult                \* 60, 68
    ELSE IF c.kind = "scalar" THEN Timestamp(c.dates[1])     \* 61, 65
    ELSE IF Len(c.dates) > 0 THEN Timestamp(PickFromList(c.dates))  \* 63-65
    ELSE DatetimeIndex                                       \* 63 false, 65

\* The dates the earnings feed may name, relative to today: in a run of the
\* session, and in the runs of the earnings stage alone.
EarnOffsets     == {0, 8}
WideEarnOffsets == {-1, 0, 7, 8}

Payloads(td, offsets) ==
    LET days == {td + o : o \in offsets}
    IN  {Payload(k, <<>>) : k \in {"raises", "no_frame", "no_row"}}
        \cup {Payload("scalar", <<d>>) : d \in days}
        \cup {Payload("list", ds) : ds \in SeqsUpTo(days, MaxCands)}

\* Lines 73-77: the row of one ticker. ed is a Timestamp or None here.
MakeRow(tic, e, td) ==
    [ticker        |-> tic,
     earnings_date |-> IF e.kind = "None" THEN None ELSE Some(IsoFormat(e.day)),
     days_until    |-> IF e.kind = "None" THEN None ELSE Some(e.day - td)]

\* Line 75 calls ed.date(): on a DatetimeIndex, .date is an array, and the
\* call raises TypeError.
RowFaults(e) == e.kind = "DatetimeIndex"

\* The order of sort_values(["earnings_date", "ticker"], na_position="last"):
\* by the ISO string, rows without a date last, then by ticker.
RowLess(a, b) ==
    IF a.earnings_date /= None /\ b.earnings_date = None THEN TRUE
    ELSE IF a.earnings_date = None /\ b.earnings_date /= None THEN FALSE
    ELSE IF a.earnings_date /= b.earnings_date
         THEN StrLess(a.earnings_date[1], b.earnings_date[1])
    ELSE StrLess(a.ticker, b.ticker)

RECURSIVE InsertRow(_, _)
InsertRow(r, s) ==
    IF s = <<>> THEN <<r>>
    ELSE IF RowLess(r, Head(s)) THEN <<r>> \o s
    ELSE <<Head(s)>> \o InsertRow(r, Tail(s))

RECURSIVE SortRows(_)
SortRows(s) == IF s = <<>> THEN <<>> ELSE InsertRow(Head(s), SortRows(Tail(s)))

\* Line 79 on a DataFrame built from no rows: it has no columns, and
\* sort_values raises KeyError('earnings_date').
EarnTableFaults(rs) == rs = <<>>

EarningsHorizonDays == 7

\* Lines 101-102: dropna on days_until, then 0 <= days_until <= 7.
SoonEarn(df) ==
    LET keep(r) == /\ r.days_until /= None
                   /\ r.days_until[1] >= 0
                   /\ r.days_until[1] <= EarningsHorizonDays
    IN  SelectSeq(df, keep)

\* Lines 104-108.
EarningsAlert(soon) == IF Len(soon) > 0 THEN "upcoming" ELSE "none"

----------------------------------------------------------------------------
(***************************************************************************)
(* The macro calendar and its alert: lines 37-48 and 84-98.                *)
(***************************************************************************)

Event(d, name) == [date |-> d, event |-> name]

\* Lines 40-44, the rationale texts left out.
HardCodedEvents(td) ==
    << Event(td + 1, "CPI"), Event(td + 7, "FOMC"), Event(td + 14, "NFP") >>

Perms(n) == {f \in [1..n -> 1..n] : \A i, j \in 1..n : i /= j => f[i] /= f[j]}

\* Line 46: sort_values("date").  pandas' default sort is not stable, so any
\* order of the events that is ascending by date may result.
\* Line 47: pd.to_datetime turns each date into the Timestamp of its midnight.
SortedByDate(evs) ==
    LET n == Len(evs)
        sorted(f) == \A i \in 1..(n - 1) : evs[f[i]].date <= evs[f[i + 1]].date
    IN  { [i \in 1..n |-> Event(evs[f[i]].date * 24, evs[f[i]].event)] :
            f \in {g \in Perms(n) : sorted(g)} }

MacroHorizonHours == 48

\* Line 90 with hours_until >= h for hours_until <= h.
EventsWithin_FlippedBound(df, n, h) ==
    LET keep(r) == (r.date - n >= 0) /\ (r.date - n >= h)
    IN  SelectSeq(df, keep)

\* Lines 87-90 with the horizon h: hours_until = date - now, in hours, and
\* the rows with 0 <= hours_until <= h.
EventsWithin(df, n, h) ==
    LET keep(r) == (r.date - n >= 0) /\ (r.date - n <= h)
    IN  SelectSeq(df, keep)

\* Line 90 with hours_until < 48 for hours_until <= 48.
SoonMacro_Exclusive(df, n) ==
    LET keep(r) == (r.date - n >= 0) /\ (r.date - n < MacroHorizonHours)
    IN  SelectSeq(df, keep)

SoonMacro(df, n) == EventsWithin(df, n, MacroHorizonHours)

\* Lines 92-98.
MacroAlert(soon) == IF Len(soon) > 0 THEN "imminent" ELSE "clear"

\* Line 93: top = soon_macro.iloc[0]
TopOf(soon) == IF Len(soon) > 0 THEN Some(soon[1]) ELSE None

----------------------------------------------------------------------------
(***************************************************************************)
(* Exposure: lines 114-154.  A string here is a sequence of tokens: a word *)
(* (a tag name, which holds no comma and no blank), "," or " ".            *)
(***************************************************************************)

Word(w) == <<w>>

unknown == Word("unknown")

\* Lines 114-126.
sector_to_tags ==
    ("Technology"             :> <<Word("rate-sensitive"), Word("growth")>>) @@
    ("Communication Services" :> <<Word("rate-sensitive"), Word("growth")>>) @@
    ("Consumer Discretionary" :> <<Word("cyclical"), Word("rate-sensitive")>>) @@
    ("Financial Services"     :> <<Word("rate-sensitive"), Word("macro-sensitive")>>) @@
    ("Real Estate"            :> <<Word("rate-sensitive")>>) @@
    ("Utilities"              :> <<Word("defensive"), Word("rate-sensitive")>>) @@
    ("Consumer Staples"       :> <<Word("defensive"), Word("inflation-sensitive")>>) @@
    ("Health Care"            :> <<Word("defensive")>>) @@
    ("Industrials"            :> <<Word("cyclical")>>) @@
    ("Energy"                 :> <<Word("inflation-sensitive"), Word("commodities")>>) @@
    ("Basic Materials"        :> <<Word("inflation-sensitive"), Word("commodities")>>)

\* What yf.Ticker(t).info may be when get_sector reads it: the request
\* raises, or info is a dict whose "sector" is missing (None) or a string.
SectorResponse(k, sec) == [kind |-> k, sector |-> sec]

SectorResponses ==
    { SectorResponse("raises", None), SectorResponse("info", None) }
    \cup { SectorResponse("info", Some(n)) :
             n \in {"Technology", "Consumer Discretionary", "Crypto"} }

\* Lines 128-133.
get_sector(resp) == IF resp.kind = "raises" THEN None ELSE resp.sector

\* Line 139: sector_to_tags.get(sector, ["unknown"]) if sector else ["unknown"]
TagsFor(sector) ==
    IF sector /= None /\ sector[1] /= ""
    THEN (IF sector[1] \in DOMAIN sector_to_tags
          THEN sector_to_tags[sector[1]] ELSE <<unknown>>)
    ELSE <<unknown>>

\* ", ".join(strs)
RECURSIVE Join(_)
Join(strs) ==
    IF strs = <<>> THEN <<>>
    ELSE IF Len(strs) = 1 THEN strs[1]
    ELSE strs[1] \o <<",", " ">> \o Join(Tail(strs))

\* s.split(","): the pieces between the commas, at least one piece.
RECURSIVE SplitFrom(_, _)
SplitFrom(s, piece) ==
    IF s = <<>> THEN <<piece>>
    ELSE IF Head(s) = "," THEN <<piece>> \o SplitFrom(Tail(s), <<>>)
    ELSE SplitFrom(Tail(s), Append(piece, Head(s)))

Split(s) == SplitFrom(s, <<>>)

\* Line 140.
MakeExRow(tic, sector) ==
    [ticker |-> tic, sector |-> sector, tags |-> Join(TagsFor(sector))]

\* Line 142-148 on a DataFrame built from no rows: ex_df["tags"] raises
\* KeyError('tags').
ExTableFaults(rs) == rs = <<>>

\* Lines 147-149.
RECURSIVE AllTags(_)
AllTags(rs) ==
    IF rs = <<>> THEN <<>>
    ELSE LET pieces == Split(Head(rs).tags)
         IN  [i \in 1..Len(pieces) |-> Strip(pieces[i])] \o AllTags(Tail(rs))

\* Line 151: value_counts().
CountOf(tags, t) == Cardinality({i \in 1..Len(tags) : tags[i] = t})

MaxCount(tags) ==
    CHOOSE c \in 0..Len(tags) :
        /\ \A t \in Range(tags) : CountOf(tags, t) <= c
        /\ (tags /= <<>> => \E t \in Range(tags) : CountOf(tags, t) = c)
        /\ (tags = <<>> => c = 0)

\* Line 153 taking the first tag met, whatever its count.
TopChoices_FirstMet(tags) == {tags[1]}

\* The tags that may be tag_counts.index[0]: value_counts sorts by count,
\* descending, and does not say in which order equal counts come.
TopChoices(tags) == {t \in Range(tags) : CountOf(tags, t) = MaxCount(tags)}

Max2(a, b) == IF a >= b THEN a ELSE b

\* Line 154: a fraction num / den.
Share(n, d) == [num |-> n, den |-> d]

TopShare(tags, wl) ==
    IF Len(tags) > 0 THEN Share(MaxCount(tags), Max2(Len(wl), 1)) ELSE Share(0, 1)

----------------------------------------------------------------------------
(***************************************************************************)
(* The session: one script run per user interaction.                       *)
(***************************************************************************)

Init ==
    /\ watchlist = DefaultWatchlist       \* lines 12-13
    /\ text_input = <<>>
    /\ new_ticker = <<>>
    /\ clicked = "none"
    /\ pc = "idle"
    /\ fault = "none"
    /\ today = 0
    /\ now = 0
    /\ cal = NoCal
    /\ ed = NoneResult
    /\ rows = <<>>
    /\ earn_df = <<>>
    /\ soon_earn_7d = <<>>
    /\ earnings_alert = "unset"
    /\ macro_events = <<>>
    /\ macro_df = <<>>
    /\ soon_macro = <<>>
    /\ macro_alert = "unset"
    /\ top = None
    /\ ex_rows = <<>>
    /\ top_tag = None
    /\ top_share = None

\* Lines 12-48 and 70 of a run started with `text` in the text box and
\* `button` pressed; wl is the watchlist the sidebar leaves.
StartRun(text, button, wl) ==
    /\ text_input' = text
    /\ new_ticker' = Normalize(text)
    /\ clicked' = button
    /\ watchlist' = wl
    /\ fault' = "none"
    /\ \E td \in Todays :
          /\ today' = td
          /\ macro_events' = HardCodedEvents(td)
          /\ macro_df' \in SortedByDate(HardCodedEvents(td))
    /\ now' = 0
    /\ ed' = NoneResult
    /\ rows' = <<>>
    /\ earn_df' = <<>>
    /\ soon_earn_7d' = <<>>
    /\ earnings_alert' = "unset"
    /\ soon_macro' = <<>>
    /\ macro_alert' = "unset"
    /\ top' = None
    /\ ex_rows' = <<>>
    /\ top_tag' = None
    /\ top_share' = None
    /\ pc' = "earn_loop"
    /\ UNCHANGED cal

\* The user presses Add.
ClickAdd(text) ==
    /\ pc = "done"
    /\ Len(AddHandler(watchlist, Normalize(text))) <= MaxWatch
    /\ StartRun(text, "Add", AddHandler(watchlist, Normalize(text)))

\* The user presses Clear.
ClickClear(text) ==
    /\ pc = "done"
    /\ StartRun(text, "Clear", ClearHandler(watchlist))

\* A run with no button pressed: the first run of the session, or a rerun
\* caused by another widget.
Rerun(text) ==
    /\ pc \in {"idle", "done"}
    /\ pc = "idle" => text = <<>>
    /\ StartRun(text, "none", watchlist)

\* Lines 71-77, one iteration, the feed answering with one of `feed`.
EarnLoopOver(feed) ==
    /\ pc = "earn_loop"
    /\ Len(rows) < Len(watchlist)
    /\ \E c \in feed :
          LET e == safe_earnings_date(c)
          IN  /\ ed' = e
              /\ IF RowFaults(e)
                 THEN /\ fault' = "TypeError"
                      /\ pc' = "done"
                      /\ UNCHANGED rows
                 ELSE /\ rows' = Append(rows, MakeRow(watchlist[Len(rows) + 1], e, today))
                      /\ UNCHANGED <<pc, fault>>
    /\ UNCHANGED <<sessionVars, today, now, cal, earn_df, soon_earn_7d,
                   earnings_alert, macroVars, exVars>>

EarnLoop == EarnLoopOver(Payloads(today, EarnOffsets))

\* Lines 79-80.
EarnTable ==
    /\ pc = "earn_loop"
    /\ Len(rows) = Len(watchlist)
    /\ IF EarnTableFaults(rows)
       THEN /\ fault' = "KeyError"
            /\ pc' = "done"
            /\ UNCHANGED earn_df
       ELSE /\ earn_df' = SortRows(rows)
            /\ pc' = "alerts"
            /\ UNCHANGED fault
    /\ UNCHANGED <<sessionVars, today, now, cal, ed, rows, soon_earn_7d,
                   earnings_alert, macroVars, exVars>>

\* Lines 84-108.
Alerts ==
    /\ pc = "alerts"
    /\ \E h \in NowOffsets :
          /\ now' = today * 24 + h
          /\ soon_macro' = SoonMacro(macro_df, today * 24 + h)
          /\ macro_alert' = MacroAlert(SoonMacro(macro_df, today * 24 + h))
          /\ top' = TopOf(SoonMacro(macro_df, today * 24 + h))
    /\ soon_earn_7d' = SoonEarn(earn_df)
    /\ earnings_alert' = EarningsAlert(SoonEarn(earn_df))
    /\ pc' = "ex_loop"
    /\ UNCHANGED <<sessionVars, fault, today, cal, ed, rows, earn_df,
                   macro_events, macro_df, exVars>>

\* Lines 137-140, one iteration.
ExLoop ==
    /\ pc = "ex_loop"
    /\ Len(ex_rows) < Len(watchlist)
    /\ \E resp \in SectorResponses :
          ex_rows' = Append(ex_rows,
                            MakeExRow(watchlist[Len(ex_rows) + 1], get_sector(resp)))
    /\ UNCHANGED <<sessionVars, pc, fault, today, now, cal, ed, earnVars,
                   macroVars, top_tag, top_share>>

\* Lines 142-154.
Summary ==
    /\ pc = "ex_loop"
    /\ Len(ex_rows) = Len(watchlist)
    /\ IF ExTableFaults(ex_rows)
       THEN /\ fault' = "KeyError"
            /\ UNCHANGED <<top_tag, top_share>>
       ELSE /\ IF Len(AllTags(ex_rows)) > 0
               THEN \E t \in TopChoices(AllTags(ex_rows)) : top_tag' = Some(t)
               ELSE top_tag' = Some(unknown)
            /\ top_share' = Some(TopShare(AllTags(ex_rows), watchlist))
            /\ UNCHANGED fault
    /\ pc' = "done"
    /\ UNCHANGED <<sessionVars, today, now, cal, ed, earnVars, macroVars, ex_rows>>

Next ==
    \/ \E text \in TextInputs : ClickAdd(text)
    \/ \E text \in TextInputs : ClickClear(text)
    \/ \E text \in TextInputs : Rerun(text)
    \/ EarnLoop
    \/ EarnTable
    \/ Alerts
    \/ ExLoop
    \/ Summary

Spec == Init /\ [][Next]_vars

----------------------------------------------------------------------------
(***************************************************************************)
(* The earnings stage alone (lines 70-108), from the start of a run with   *)
(* any watchlist a session can hold, over a wider feed.                    *)
(***************************************************************************)

SpacedTicker == <<"A", " ", "A">>

StageTickers == {<<"A">>, SpacedTicker, AAPL, MSFT}

StageTodays == {27, 85}     \* 2026-12-28 and 2027-02-24

DistinctSeqs(S, n) ==
    {s \in SeqsUpTo(S, n) : \A i, j \in 1..Len(s) : i /= j => s[i] /= s[j]}

InitEarnings ==
    /\ watchlist \in DistinctSeqs(StageTickers, MaxWatch)
    /\ text_input = <<>>
    /\ new_ticker = <<>>
    /\ clicked = "none"
    /\ pc = "earn_loop"
    /\ fault = "none"
    /\ today \in StageTodays
    /\ now = 0
    /\ cal = NoCal
    /\ ed = NoneResult
    /\ rows = <<>>
    /\ earn_df = <<>>
    /\ soon_earn_7d = <<>>
    /\ earnings_alert = "unset"
    /\ macro_events = HardCodedEvents(today)
    /\ macro_df \in SortedByDate(HardCodedEvents(today))
    /\ soon_macro = <<>>
    /\ macro_alert = "unset"
    /\ top = None
    /\ ex_rows = <<>>
    /\ top_tag = None
    /\ top_share = None

EarnLoopWide == EarnLoopOver(Payloads(today, WideEarnOffsets))

NextEarnings == EarnLoopWide \/ EarnTable \/ Alerts

SpecEarnings == InitEarnings /\ [][NextEarnings]_vars

----------------------------------------------------------------------------
(***************************************************************************)
(* One call of safe_earnings_date and the row built from what it returns   *)
(* (lines 54-77), step by step, for the first ticker of a watchlist.       *)
(***************************************************************************)

InitResolve ==
    /\ watchlist \in {<<AAPL>>, <<MSFT, AAPL>>}
    /\ text_input = <<>>
    /\ new_ticker = <<>>
    /\ clicked = "none"
    /\ pc = "fetch"
    /\ fault = "none"
    /\ today \in StageTodays
    /\ now = 0
    /\ cal = NoCal
    /\ ed = NoneResult
    /\ rows = <<>>
    /\ earn_df = <<>>
    /\ soon_earn_7d = <<>>
    /\ earnings_alert = "unset"
    /\ macro_events = HardCodedEvents(today)
    /\ macro_df \in SortedByDate(HardCodedEvents(today))
    /\ soon_macro = <<>>
    /\ macro_alert = "unset"
    /\ top = None
    /\ ex_rows = <<>>
    /\ top_tag = None
    /\ top_share = None

\* Lines 56-57: the feed answers.
Fetch ==
    /\ pc = "fetch"
    /\ cal' \in Payloads(today, WideEarnOffsets)
    /\ pc' = "resolve"
    /\ UNCHANGED <<sessionVars, fault, today, now, ed, earnVars, macroVars, exVars>>

\* Lines 58-68: the value safe_earnings_date is about to return.
Resolve ==
    /\ pc = "resolve"
    /\ ed' = safe_earnings_date(cal)
    /\ pc' = "returning"
    /\ UNCHANGED <<sessionVars, fault, today, now, cal, earnVars, macroVars, exVars>>

\* Lines 72-77: the call returns and the caller builds the row.
BuildRow ==
    /\ pc = "returning"
    /\ cal' = NoCal
    /\ IF RowFaults(ed)
       THEN /\ fault' = "TypeError"
            /\ pc' = "done"
            /\ UNCHANGED rows
       ELSE /\ rows' = Append(rows, MakeRow(watchlist[Len(rows) + 1], ed, today))
            /\ pc' = "row_built"
            /\ UNCHANGED fault
    /\ UNCHANGED <<sessionVars, today, now, ed, earn_df, soon_earn_7d,
                   earnings_alert, macroVars, exVars>>

NextResolve == Fetch \/ Resolve \/ BuildRow

SpecResolve == InitResolve /\ [][NextResolve]_vars

----------------------------------------------------------------------------
(***************************************************************************)
(* The macro calendar and its alert alone (lines 46-47 and 84-98), over    *)
(* any non-empty calendar and any current time.                            *)
(***************************************************************************)

EventNames == <<"CPI", "FOMC", "NFP", "PCE", "GDP">>

\* The calendars of 1..MaxEvents events on the days 0..MaxDay, in any order.
Calendars ==
    UNION { { [i \in 1..k |-> Event(ds[i], EventNames[i])] : ds \in [1..k -> 0..MaxDay] } :
            k \in 1..MaxEvents }

\* The current times, in hours: every hour from day 0 to the hour after the
\* last day's midnight.
NowHours == 0..(MaxDay * 24 + 1)

InitMacro ==
    /\ watchlist = DefaultWatchlist
    /\ text_input = <<>>
    /\ new_ticker = <<>>
    /\ clicked = "none"
    /\ pc = "macro_table"
    /\ fault = "none"
    /\ today = 0
    /\ now = 0
    /\ cal = NoCal
    /\ ed = NoneResult
    /\ rows = <<>>
    /\ earn_df = <<>>
    /\ soon_earn_7d = <<>>
    /\ earnings_alert = "unset"
    /\ macro_events \in Calendars
    /\ macro_df = <<>>
    /\ soon_macro = <<>>
    /\ macro_alert = "unset"
    /\ top = None
    /\ ex_rows = <<>>
    /\ top_tag = None
    /\ top_share = None

\* Lines 46-47.
MacroTable ==
    /\ pc = "macro_table"
    /\ macro_df' \in SortedByDate(macro_events)
    /\ pc' = "macro_alerts"
    /\ UNCHANGED <<sessionVars, fault, today, now, cal, ed, earnVars,
                   macro_events, soon_macro, macro_alert, top, exVars>>

\* Lines 84-98.
MacroAlerts ==
    /\ pc = "macro_alerts"
    /\ \E n \in NowHours :
          /\ now' = n
          /\ soon_macro' = SoonMacro(macro_df, n)
          /\ macro_alert' = MacroAlert(SoonMacro(macro_df, n))
          /\ top' = TopOf(SoonMacro(macro_df, n))
    /\ pc' = "macro_done"
    /\ UNCHANGED <<sessionVars, fault, today, cal, ed, earnVars,
                   macro_events, macro_df, exVars>>

NextMacro == MacroTable \/ MacroAlerts

SpecMacro == InitMacro /\ [][NextMacro]_vars

----------------------------------------------------------------------------
(***************************************************************************)
(* Properties.                                                             *)
(***************************************************************************)

\* A run has ended and every earnings lookup of it returned a date or None.
RunEnded == pc = "done" /\ ed.kind /= "DatetimeIndex"

\* C1: with an empty watchlist a run completes without a fault and yields
\* earnings_alert = none, dominant tag = unknown and dominant share = 0.
C1_EmptyWatchlistEvaluates ==
    (pc = "done" /\ watchlist = <<>>) =>
        /\ fault = "none"
        /\ earnings_alert = "none"
        /\ top_tag = Some(unknown)
        /\ top_share /= None /\ top_share[1].num = 0

\* A sidebar step of a run started by the Add button.
AddStep == pc = "done" /\ pc' = "earn_loop" /\ clicked' = "Add"

\* C2: an Add whose input is empty after trimming, or whose trimmed and
\* uppercased symbol is already in the watchlist, leaves the watchlist as it
\* was and raises nothing; and an Add that repeats the Add before it (the
\* same text) leaves the watchlist as the first Add left it.
C2_AddIsNoOpOnEmptyOrDuplicate ==
    [][ AddStep =>
          /\ fault' = "none"
          /\ (Strip(text_input') = <<>> \/ Upper(Strip(text_input')) \in Range(watchlist))
                => watchlist' = watchlist
          /\ (clicked = "Add" /\ text_input' = text_input)
                => watchlist' = watchlist ]_vars

\* An Add of " A " that found A already in the watchlist, ahead of MSFT.
C2_Witness ==
    /\ clicked = "Add"
    /\ text_input = <<" ", "A", " ">>
    /\ watchlist = << <<"A">>, MSFT >>
    /\ pc = "earn_loop"

IsTrimmed(e) == ~IsSpace(e[1]) /\ ~IsSpace(e[Len(e)])

IsUpperCase(e) == \A i \in 1..Len(e) : e[i] \notin {"a", "f", "m", "s", "t"}

\* C3: in every reachable state the watchlist holds no ticker twice, and
\* every element is a non-empty, trimmed, uppercase symbol.
C3_WatchlistWellFormed ==
    /\ \A i, j \in 1..Len(watchlist) : i /= j => watchlist[i] /= watchlist[j]
    /\ \A i \in 1..Len(watchlist) :
          /\ watchlist[i] /= <<>>
          /\ IsTrimmed(watchlist[i])
          /\ IsUpperCase(watchlist[i])

\* After a Clear, "msft" and then " A " were added.
C3_Witness ==
    /\ watchlist = << MSFT, <<"A">> >>
    /\ clicked = "Add"
    /\ text_input = <<" ", "A", " ">>

\* C4: for every watchlist and every sector lookup the dominant share is in
\* [0,1], and it is 0 if and only if the watchlist is empty.
C4_ShareInUnitIntervalZeroIffEmpty ==
    RunEnded =>
        /\ top_share /= None
        /\ 0 <= top_share[1].num /\ top_share[1].num <= top_share[1].den
        /\ (top_share[1].num = 0) <=> (watchlist = <<>>)

\* What C4 says of the runs that reach the exposure summary.
C4_ShareOfComputedSummary ==
    top_share /= None =>
        /\ watchlist /= <<>>
        /\ 0 < top_share[1].num /\ top_share[1].num <= top_share[1].den

\* The rows of line 70 whose date is present and at most 7 days ahead.
Upcoming ==
    {i \in 1..Len(rows) :
        /\ rows[i].days_until /= None
        /\ 0 <= rows[i].days_until[1] /\ rows[i].days_until[1] <= 7}

SurfacedIsUpcoming ==
    /\ earnings_alert \in {"upcoming", "none"}
    /\ Len(soon_earn_7d) = Cardinality(Upcoming)
    /\ {soon_earn_7d[i].ticker : i \in 1..Len(soon_earn_7d)}
          = {rows[i].ticker : i \in Upcoming}
    /\ \A i \in 1..Len(soon_earn_7d) : soon_earn_7d[i].days_until /= None
    /\ \A i, j \in 1..Len(soon_earn_7d) :
          i < j =>
            \/ soon_earn_7d[i].days_until[1] < soon_earn_7d[j].days_until[1]
            \/ /\ soon_earn_7d[i].days_until[1] = soon_earn_7d[j].days_until[1]
               /\ StrLess(soon_earn_7d[i].ticker, soon_earn_7d[j].ticker)
    /\ (earnings_alert = "upcoming") <=> (soon_earn_7d /= <<>>)

\* C6: for every watchlist and every assignment of optional earnings dates,
\* the surfaced tickers are exactly those whose date is present and 0 to 7
\* days ahead, by date and then by ticker; earnings_alert is upcoming if and
\* only if that list is not empty.
C6_SurfacedEarnings == RunEnded => SurfacedIsUpcoming

\* What C6 says of the runs that reach the earnings alert.
C6_SurfacedWhenAlertComputed ==
    (pc \in {"ex_loop", "done"} /\ earn_df /= <<>>) => SurfacedIsUpcoming

\* The events of the calendar that are 0 to 48 hours after now, both ends
\* included; a date is the midnight that starts its day.
Within48 ==
    {i \in 1..Len(macro_events) :
        /\ macro_events[i].date * 24 - now >= 0
        /\ macro_events[i].date * 24 - now <= 48}

\* C5: macro_alert is imminent exactly when some event is 0 to 48 hours
\* after now (both ends included), the event surfaced is then an earliest
\* such event, and otherwise macro_alert is clear and nothing is surfaced.
C5_MacroAlert ==
    pc = "macro_done" =>
        /\ (macro_alert = "imminent") <=> (Within48 /= {})
        /\ (macro_alert = "clear") <=> (Within48 = {})
        /\ (Within48 = {}) => top = None
        /\ (Within48 /= {}) =>
              /\ top /= None
              /\ \E i \in Within48 :
                    /\ top[1].event = macro_events[i].event
                    /\ top[1].date = macro_events[i].date * 24
                    /\ \A j \in Within48 : macro_events[i].date <= macro_events[j].date

\* Now is the midnight of day 0; the calendar lists an event of day 2
\* (exactly 48 hours ahead) before an event of day 1, which is surfaced.
C5_Witness ==
    /\ pc = "macro_done"
    /\ now = 0
    /\ Len(macro_events) >= 2
    /\ macro_events[1].date = 2
    /\ macro_events[2].date = 1
    /\ Cardinality(Within48) = 2
    /\ macro_alert = "imminent"
    /\ top = Some(Event(24, macro_events[2].event))

\* The horizons C9 is checked for, in hours.
Horizons == {12 * k : k \in 0..(2 * MaxDay)}

\* C9: for every current time, calendar and horizons h1 <= h2, the events
\* within h1 of now are among the events within h2 of now.
C9_EventsWithinMonotonic ==
    pc = "macro_done" =>
        \A h1, h2 \in Horizons :
            h1 <= h2 =>
                Range(EventsWithin(macro_df, now, h1))
                    \subseteq Range(EventsWithin(macro_df, now, h2))

\* Some event is within 48 hours of now and not within 24, another within 24.
C9_Witness ==
    /\ pc = "macro_done"
    /\ EventsWithin(macro_df, now, 24) /= <<>>
    /\ Range(EventsWithin(macro_df, now, 24)) /= Range(EventsWithin(macro_df, now, 48))
    /\ soon_macro = EventsWithin(macro_df, now, 48)

RECURSIVE MinOf(_)
MinOf(ds) ==
    IF Len(ds) = 1 THEN ds[1]
    ELSE IF ds[1] <= MinOf(Tail(ds)) THEN ds[1] ELSE MinOf(Tail(ds))

\* C7: whatever the upstream source answers, the earnings lookup returns a
\* date or None and no error is raised: the row of the ticker is built and
\* the run goes on.
C7_LookupNeverBreaksTheRun ==
    /\ fault = "none"
    /\ pc \in {"row_built", "done"} => (pc = "row_built" /\ Len(rows) = 1)

\* C8: when the upstream source names several candidate dates, in any
\* order, the earnings lookup returns the earliest of them.
C8_EarliestCandidate ==
    (pc = "returning" /\ cal.kind = "list" /\ Len(cal.dates) > 0) =>
        ed = Timestamp(MinOf(cal.dates))

\* The static tag vocabulary, in the order its tags first appear.
Vocabulary ==
    << Word("rate-sensitive"), Word("growth"), Word("cyclical"),
       Word("macro-sensitive"), Word("defensive"), Word("inflation-sensitive"),
       Word("commodities"), unknown >>

\* The tag set of a ticker: that of its sector, {unknown} when the sector is
\* absent or unmapped.
TagSetOf(sector) ==
    IF sector /= None /\ sector[1] \in DOMAIN sector_to_tags
    THEN Range(sector_to_tags[sector[1]])
    ELSE {unknown}

Occurrences(t) ==
    Cardinality({i \in 1..Len(ex_rows) : t \in TagSetOf(ex_rows[i].sector)})

HighestTags ==
    {t \in Range(Vocabulary) :
        /\ Occurrences(t) > 0
        /\ \A u \in Range(Vocabulary) : Occurrences(u) <= Occurrences(t)}

FirstInVocabulary(T) ==
    Vocabulary[CHOOSE i \in 1..Len(Vocabulary) :
                  /\ Vocabulary[i] \in T
                  /\ \A j \in 1..(i - 1) : Vocabulary[j] \notin T]

\* The exposure loop of a run over a non-empty watchlist has ended, and so
\* has the run.
ExposureEnded ==
    pc = "done" /\ watchlist /= <<>> /\ Len(ex_rows) = Len(watchlist)

\* C10: for a non-empty watchlist the dominant tag is a tag of the highest
\* count, and among several such tags it is the first of the vocabulary.
C10_DominantTagByVocabularyOrder ==
    ExposureEnded =>
        /\ fault = "none"
        /\ top_tag = Some(FirstInVocabulary(HighestTags))

\* C10, amended: for a non-empty watchlist the dominant tag is one of the
\* tags of the highest count (a ticker whose sector is absent or unmapped
\* counting for unknown alone); nothing more is said of which one.
C10_DominantTagHasHighestCount ==
    ExposureEnded =>
        /\ fault = "none"
        /\ top_tag /= None
        /\ top_tag[1] \in HighestTags

\* Consumer Discretionary and Technology: rate-sensitive counts twice, and
\* cyclical, the first tag met, once.
C10_Witness ==
    /\ ExposureEnded
    /\ ex_rows[1].sector = Some("Consumer Discretionary")
    /\ ex_rows[2].sector = Some("Technology")
    /\ top_tag = Some(Word("rate-sensitive"))

====
